---- MODULE Spec2Model ----
(***************************************************************************)
(* DDR5 power calculator: core power model, interface power models, the    *)
(* DDR5 device composer and the two DIMM aggregators.                      *)
(*                                                                         *)
(* Python floats are modelled as exact rationals <<n, d>> in lowest terms  *)
(* with d > 0 (the spec's "within floating-point tolerance" identities     *)
(* become exact).  A breakdown (dict of str -> float) is a function from a *)
(* set of strings to rationals.  An Optional[dict] is a record             *)
(* [some, d]; None is [some |-> FALSE].                                    *)
(***************************************************************************)
EXTENDS Integers, Sequences, FiniteSets, TLC

VARIABLES
    memspec,    \* the shared Specification record
    workload,   \* the shared Workload record
    target,     \* what the caller works on: "DDR5", "DIMM", "LegacyDIMM",
                \* "Parser" (the loaders of the input documents),
                \* "Backend" (the calculate endpoints) or "Regression"
                \* (the standalone function next to the model class)
    dev,        \* the DDR5 instance (target "DDR5")
    dimm,       \* the DIMM instance (targets "DIMM" and "LegacyDIMM")
    ret,        \* the outcome of the last call: operation, exception, value
    hist,       \* the outcomes of the DIMM's compute_all calls, oldest first
    loaded,     \* the last load_memspec / load_workload: document and outcome
    api         \* the backend's requests in flight: each handler's locals

vars == <<memspec, workload, target, dev, dimm, ret, hist, loaded, api>>

(***************************************************************************)
(* Bounds of the model.                                                    *)
(***************************************************************************)
MaxDevices == 2
MaxCalls == 2

(***************************************************************************)
(* Rational arithmetic (float semantics without rounding).                 *)
(***************************************************************************)
Abs(x) == IF x < 0 THEN -x ELSE x

RECURSIVE GCD(_, _)
GCD(a, b) == IF b = 0 THEN a ELSE GCD(b, a % b)

Norm(n, d) ==
    LET g == GCD(Abs(n), Abs(d))
        s == IF d < 0 THEN -1 ELSE 1
    IN  <<(s * n) \div g, (s * d) \div g>>

R(i) == <<i, 1>>
Frac(n, d) == Norm(n, d)
Zero == R(0)
One == R(1)

RAdd(x, y) ==
    LET g == GCD(x[2], y[2])
    IN  Norm(x[1] * (y[2] \div g) + y[1] * (x[2] \div g), (x[2] \div g) * y[2])

RNeg(x) == <<-x[1], x[2]>>
RSub(x, y) == RAdd(x, RNeg(y))

RMul(x, y) ==
    LET g1 == GCD(Abs(x[1]), y[2])
        g2 == GCD(Abs(y[1]), x[2])
    IN  <<(x[1] \div g1) * (y[1] \div g2), (x[2] \div g2) * (y[2] \div g1)>>

\* x / y for y # 0; the callers model ZeroDivisionError themselves.
RDiv(x, y) == RMul(x, Norm(y[2], y[1]))

RIsZero(x) == x[1] = 0
RPos(x) == x[1] > 0
RLess(x, y) == RSub(x, y)[1] < 0
RLeq(x, y) == RSub(x, y)[1] <= 0
RMin(x, y) == IF RLess(y, x) THEN y ELSE x

(***************************************************************************)
(* Dictionaries and Optional[dict].                                        *)
(***************************************************************************)
EmptyDict == [k \in {} |-> Zero]
None == [some |-> FALSE, d |-> EmptyDict]
Some(d) == [some |-> TRUE, d |-> d]

\* dict.get(k, 0.0)
Get(d, k) == IF k \in DOMAIN d THEN d[k] ELSE Zero

\* Outcome of a call: a returned value or a raised exception.
Return(v) == [exc |-> "none", val |-> v]
Raise(e) == [exc |-> e, val |-> None]

(***************************************************************************)
(* core_model.py: DDR5CorePowerModel.compute                               *)
(***************************************************************************)
CoreKeys ==
    {"P_PRE_STBY_core", "P_ACT_STBY_core", "P_ACT_PRE_core", "P_RD_core",
     "P_WR_core", "P_REF_core", "P_VDD_core", "P_VPP_core", "P_total_core"}

Hundred == R(100)
NanoSecond == Frac(1, 1000000000)

\* Basic timing in seconds (core_model.py lines 20-24, 66-67).
tRAS(t) == RMul(R(t.RAS), t.tCK)
tRP(t) == RMul(R(t.RP), t.tCK)
tRFC1_s(t) == RMul(R(t.RFC1), t.tCK)
tREFI_s_at_least_one_clock(t) ==
    IF t.REFI = 0 THEN t.tCK ELSE RMul(R(t.REFI), t.tCK)

tREFI_s(t) == RMul(R(t.REFI), t.tCK)
tRRDsch_s(wl) == RMul(wl.tRRDsch_ns, NanoSecond)
t_row_cycle(t) == RAdd(tRAS(t), tRP(t))

\* Workload percentages as fractions.
BNK_PRE_frac(wl) == RDiv(wl.BNK_PRE_percent, Hundred)
CKE_LO_PRE_frac(wl) == RDiv(wl.CKE_LO_PRE_percent, Hundred)
CKE_LO_ACT_frac(wl) == RDiv(wl.CKE_LO_ACT_percent, Hundred)
RD_frac_clamped(wl) == RMin(One, RNeg(RMin(Zero, RNeg(RDiv(wl.RDsch_percent, Hundred)))))

RD_frac(wl) == RDiv(wl.RDsch_percent, Hundred)
WR_frac(wl) == RDiv(wl.WRsch_percent, Hundred)

\* 1) Background (standby) power on VDD.
I_PRE_bg(p, wl) ==
    RAdd(RMul(RSub(One, CKE_LO_PRE_frac(wl)), p.idd2n),
         RMul(CKE_LO_PRE_frac(wl), p.idd2p))

P_PRE_STBY_core_gated(p, wl) ==
    RMul(BNK_PRE_frac(wl), RMul(p.vdd, I_PRE_bg(p, wl)))

P_PRE_STBY_core(p, wl) == RMul(p.vdd, I_PRE_bg(p, wl))

I_ACT_bg(p, wl) ==
    RAdd(RMul(RSub(One, CKE_LO_ACT_frac(wl)), p.idd3n),
         RMul(CKE_LO_ACT_frac(wl), p.idd3p))

P_ACT_STBY_core(p, wl) == RMul(p.vdd, I_ACT_bg(p, wl))

P_background_vdd_unweighted(p, wl) ==
    RAdd(RMul(BNK_PRE_frac(wl), P_PRE_STBY_core(p, wl)), P_ACT_STBY_core(p, wl))

P_background_vdd(p, wl) ==
    RAdd(RMul(BNK_PRE_frac(wl), P_PRE_STBY_core(p, wl)),
         RMul(RSub(One, BNK_PRE_frac(wl)), P_ACT_STBY_core(p, wl)))

\* 2) Refresh power on VDD and VPP; evaluated only when tREFI_s # 0.
duty_ref(t) == RDiv(tRFC1_s(t), tREFI_s(t))
P_REF_vdd(p, t) == RMul(RMul(p.vdd, RSub(p.idd5b, p.idd3n)), duty_ref(t))
P_REF_vpp(p, t) == RMul(RMul(p.vpp, RSub(p.ipp5b, p.ipp3n)), duty_ref(t))
P_REF_core(p, t) == RAdd(P_REF_vdd(p, t), P_REF_vpp(p, t))

\* 3) Read / write incremental core power on VDD.
P_RD_core_reversed(p, wl) == RMul(RMul(p.vdd, RSub(p.idd3n, p.idd4r)), RD_frac(wl))

P_RD_core(p, wl) == RMul(RMul(p.vdd, RSub(p.idd4r, p.idd3n)), RD_frac(wl))
P_WR_core(p, wl) == RMul(RMul(p.vdd, RSub(p.idd4w, p.idd3n)), WR_frac(wl))

\* 4) Activate / precharge incremental power on VDD and VPP.
duty_act_pre_unclamped(t, wl) ==
    IF RPos(tRRDsch_s(wl))
    THEN RDiv(t_row_cycle(t), tRRDsch_s(wl))
    ELSE Zero

duty_act_pre(t, wl) ==
    IF RPos(tRRDsch_s(wl))
    THEN RMin(One, RDiv(t_row_cycle(t), tRRDsch_s(wl)))
    ELSE Zero

duty_act_vpp_idle_one(t, wl) ==
    IF RPos(tRRDsch_s(wl))
    THEN RMin(One, RDiv(tRAS(t), tRRDsch_s(wl)))
    ELSE One

duty_act_vpp(t, wl) ==
    IF RPos(tRRDsch_s(wl))
    THEN RMin(One, RDiv(tRAS(t), tRRDsch_s(wl)))
    ELSE Zero

P_ACT_PRE_vdd(p, t, wl) ==
    RMul(RMul(p.vdd, RSub(p.idd0, p.idd2n)), duty_act_pre(t, wl))

P_ACT_vpp(p, t, wl) ==
    RMul(RMul(p.vpp, RSub(p.ipp0, p.ipp2n)), duty_act_vpp(t, wl))

P_ACT_PRE_core(p, t, wl) == RAdd(P_ACT_PRE_vdd(p, t, wl), P_ACT_vpp(p, t, wl))

\* 5) Aggregate.
P_VDD_core_no_background(p, t, wl) ==
    RAdd(RAdd(RAdd(P_RD_core(p, wl), P_WR_core(p, wl)), P_REF_vdd(p, t)),
         P_ACT_PRE_vdd(p, t, wl))

P_VDD_core(p, t, wl) ==
    RAdd(RAdd(RAdd(RAdd(P_background_vdd(p, wl), P_RD_core(p, wl)),
                   P_WR_core(p, wl)), P_REF_vdd(p, t)), P_ACT_PRE_vdd(p, t, wl))

P_VPP_core(p, t, wl) == RAdd(P_REF_vpp(p, t), P_ACT_vpp(p, t, wl))

\* A total that forgets the VPP rail.
P_total_core_vdd_only(p, t, wl) == P_VDD_core(p, t, wl)

P_total_core(p, t, wl) == RAdd(P_VDD_core(p, t, wl), P_VPP_core(p, t, wl))

\* The float division tRFC1_s / tREFI_s raises ZeroDivisionError when
\* REFI * tCK is 0; nothing before it can fail.
DDR5CorePowerModel_compute(ms, wl) ==
    LET p == ms.mempowerspec
        t == ms.memtimingspec
    IN  IF RIsZero(tREFI_s(t))
        THEN Raise("ZeroDivisionError")
        ELSE Return(Some(
               [k \in CoreKeys |->
                  CASE k = "P_PRE_STBY_core" -> P_PRE_STBY_core(p, wl)
                    [] k = "P_ACT_STBY_core" -> P_ACT_STBY_core(p, wl)
                    [] k = "P_ACT_PRE_core" -> P_ACT_PRE_core(p, t, wl)
                    [] k = "P_RD_core" -> P_RD_core(p, wl)
                    [] k = "P_WR_core" -> P_WR_core(p, wl)
                    [] k = "P_REF_core" -> P_REF_core(p, t)
                    [] k = "P_VDD_core" -> P_VDD_core(p, t, wl)
                    [] k = "P_VPP_core" -> P_VPP_core(p, t, wl)
                    [] OTHER -> P_total_core(p, t, wl)]))

(***************************************************************************)
(* src/main.py: the standalone ddr5_core_power_model                       *)
(*                                                                         *)
(* Its locals carry the names of DDR5CorePowerModel.compute's; they are    *)
(* suffixed _main here.                                                    *)
(***************************************************************************)
tRAS_main(t) == RMul(R(t.RAS), t.tCK)
tRP_main(t) == RMul(R(t.RP), t.tCK)
tRFC1_s_main(t) == RMul(R(t.RFC1), t.tCK)
tREFI_s_main(t) == RMul(R(t.REFI), t.tCK)

I_PRE_bg_main(p, wl) ==
    RAdd(RMul(RSub(One, RDiv(wl.CKE_LO_PRE_percent, Hundred)), p.idd2n),
         RMul(RDiv(wl.CKE_LO_PRE_percent, Hundred), p.idd2p))

P_PRE_STBY_core_main(p, wl) == RMul(p.vdd, I_PRE_bg_main(p, wl))

I_ACT_bg_main(p, wl) ==
    RAdd(RMul(RSub(One, RDiv(wl.CKE_LO_ACT_percent, Hundred)), p.idd3n),
         RMul(RDiv(wl.CKE_LO_ACT_percent, Hundred), p.idd3p))

P_ACT_STBY_core_main(p, wl) == RMul(p.vdd, I_ACT_bg_main(p, wl))

P_background_vdd_main(p, wl) ==
    RAdd(RMul(RDiv(wl.BNK_PRE_percent, Hundred), P_PRE_STBY_core_main(p, wl)),
         RMul(RSub(One, RDiv(wl.BNK_PRE_percent, Hundred)),
              P_ACT_STBY_core_main(p, wl)))

duty_ref_main(t) == RDiv(tRFC1_s_main(t), tREFI_s_main(t))
P_REF_vdd_main(p, t) == RMul(RMul(p.vdd, RSub(p.idd5b, p.idd3n)), duty_ref_main(t))
P_REF_vpp_main(p, t) == RMul(RMul(p.vpp, RSub(p.ipp5b, p.ipp3n)), duty_ref_main(t))

P_RD_core_main(p, wl) ==
    RMul(RMul(p.vdd, RSub(p.idd4r, p.idd3n)), RDiv(wl.RDsch_percent, Hundred))

P_WR_core_main(p, wl) ==
    RMul(RMul(p.vdd, RSub(p.idd4w, p.idd3n)), RDiv(wl.WRsch_percent, Hundred))

tRRDsch_s_main(wl) == RMul(wl.tRRDsch_ns, NanoSecond)

\* min(1.0, ... / tRRDsch_s) with no test of tRRDsch_s (lines 76, 80).
duty_act_pre_main(t, wl) ==
    RMin(One, RDiv(RAdd(tRAS_main(t), tRP_main(t)), tRRDsch_s_main(wl)))

duty_act_vpp_main_row_cycle(t, wl) ==
    RMin(One, RDiv(RAdd(tRAS_main(t), tRP_main(t)), tRRDsch_s_main(wl)))

duty_act_vpp_main(t, wl) == RMin(One, RDiv(tRAS_main(t), tRRDsch_s_main(wl)))

P_ACT_PRE_vdd_main(p, t, wl) ==
    RMul(RMul(p.vdd, RSub(p.idd0, p.idd2n)), duty_act_pre_main(t, wl))

P_ACT_vpp_main(p, t, wl) ==
    RMul(RMul(p.vpp, RSub(p.ipp0, p.ipp2n)), duty_act_vpp_main(t, wl))

P_VDD_core_main(p, t, wl) ==
    RAdd(RAdd(RAdd(RAdd(P_background_vdd_main(p, wl), P_RD_core_main(p, wl)),
                   P_WR_core_main(p, wl)), P_REF_vdd_main(p, t)),
         P_ACT_PRE_vdd_main(p, t, wl))

P_VPP_core_main(p, t, wl) == RAdd(P_REF_vpp_main(p, t), P_ACT_vpp_main(p, t, wl))

\* The returned dict (lines 98-108).
ddr5_core_power_model_result(p, t, wl) ==
    [k \in CoreKeys |->
        CASE k = "P_PRE_STBY_core" -> P_PRE_STBY_core_main(p, wl)
          [] k = "P_ACT_STBY_core" -> P_ACT_STBY_core_main(p, wl)
          [] k = "P_ACT_PRE_core" ->
                RAdd(P_ACT_PRE_vdd_main(p, t, wl), P_ACT_vpp_main(p, t, wl))
          [] k = "P_RD_core" -> P_RD_core_main(p, wl)
          [] k = "P_WR_core" -> P_WR_core_main(p, wl)
          [] k = "P_REF_core" -> RAdd(P_REF_vdd_main(p, t), P_REF_vpp_main(p, t))
          [] k = "P_VDD_core" -> P_VDD_core_main(p, t, wl)
          [] k = "P_VPP_core" -> P_VPP_core_main(p, t, wl)
          [] OTHER -> RAdd(P_VDD_core_main(p, t, wl), P_VPP_core_main(p, t, wl))]

\* The two float divisions raise ZeroDivisionError on a zero divisor:
\* tRFC1_s / tREFI_s (line 47), then t_row_cycle / tRRDsch_s (line 76).
ddr5_core_power_model(ms, wl) ==
    IF RIsZero(tREFI_s_main(ms.memtimingspec))
    THEN Raise("ZeroDivisionError")
    ELSE IF RIsZero(tRRDsch_s_main(wl))
         THEN Raise("ZeroDivisionError")
         ELSE Return(Some(ddr5_core_power_model_result(ms.mempowerspec,
                                                       ms.memtimingspec, wl)))

(***************************************************************************)
(* core/src/interface_model.py: DDR5InterfacePowerModel                    *)
(*                                                                         *)
(* The divisor (r_source + r_term)^2 of the two resistive-divider helpers  *)
(* carries the primes 41, 37 and 19 for the default impedances; exact sums *)
(* of such terms leave the 32-bit integers of the model checker.  The      *)
(* finite precision of the helpers' float result is therefore modelled by  *)
(* rounding it down to a multiple of 0.0001 W; every other float operation *)
(* is exact.                                                               *)
(***************************************************************************)
RoundToGrid(x) == Frac((x[1] * 10000) \div x[2], 10000)

calc_power_drop_across_term(voltage, r_source, r_term) ==
    IF RIsZero(RAdd(r_source, r_term))
    THEN Zero
    ELSE LET current == RDiv(voltage, RAdd(r_source, r_term))
         IN  RoundToGrid(RMul(RMul(current, current), r_term))

calc_power_drop_across_driver(voltage, r_source, r_term) ==
    IF RIsZero(RAdd(r_source, r_term))
    THEN Zero
    ELSE LET current == RDiv(voltage, RAdd(r_source, r_term))
         IN  RoundToGrid(RMul(RMul(current, current), r_source))

NoInt == [some |-> FALSE, v |-> 0]

\* The dataclass InterfacePowerInputs with its defaults, as compute() fills it.
InterfacePowerInputs(vddq, rd_duty, wr_duty, ca_util, cs_util) ==
    [vdd |-> Frac(11, 10), vddq |-> vddq,
     num_subchannels |-> 2, device_width_bits |-> 8, devices_per_rank |-> 8,
     num_ranks |-> 1, num_cs |-> NoInt,
     r_on_host |-> R(34), r_tt_host |-> R(40), r_on_dram |-> R(34),
     r_tt_dram_wr |-> R(48), r_tt_ca |-> R(80), r_tt_ck |-> R(40),
     rd_duty |-> rd_duty, wr_duty |-> wr_duty,
     ca_util |-> ca_util, cs_util |-> cs_util, ck_util |-> One,
     prob_data_zero |-> Frac(1, 2), prob_cmd_zero |-> Frac(1, 2),
     prob_clock_toggle |-> Frac(1, 2)]

\* Pin counts per subchannel.
num_dq == 32
num_dqs == (num_dq \div 8) * 2
num_ca == 14
num_cs(inputs) == IF inputs.num_cs.some THEN inputs.num_cs.v ELSE inputs.num_ranks
num_ck == 2
num_wck == (num_dq \div 8) * 2

\* per-pin power * duty * probability of zero * pin count * subchannels
ClassPower(p_pin, duty, prob, pins, inputs) ==
    RMul(RMul(RMul(RMul(p_pin, duty), prob), R(pins)), R(inputs.num_subchannels))

total_dq_write(inputs) ==
    ClassPower(calc_power_drop_across_term(inputs.vddq, inputs.r_on_host, inputs.r_tt_dram_wr),
               inputs.wr_duty, inputs.prob_data_zero, num_dq, inputs)

total_dq_read(inputs) ==
    ClassPower(calc_power_drop_across_driver(inputs.vddq, inputs.r_on_dram, inputs.r_tt_host),
               inputs.rd_duty, inputs.prob_data_zero, num_dq, inputs)

total_ca(inputs) ==
    ClassPower(calc_power_drop_across_term(inputs.vddq, inputs.r_on_host, inputs.r_tt_ca),
               inputs.ca_util, inputs.prob_cmd_zero, num_ca, inputs)

total_ck(inputs) ==
    ClassPower(calc_power_drop_across_term(inputs.vddq, inputs.r_on_host, inputs.r_tt_ck),
               inputs.ck_util, inputs.prob_clock_toggle, num_ck, inputs)

total_wck(inputs) ==
    ClassPower(calc_power_drop_across_term(inputs.vddq, inputs.r_on_host, inputs.r_tt_ck),
               inputs.wr_duty, inputs.prob_clock_toggle, num_wck, inputs)

total_dqs_wr(inputs) ==
    ClassPower(calc_power_drop_across_term(inputs.vddq, inputs.r_on_host, inputs.r_tt_dram_wr),
               inputs.wr_duty, inputs.prob_clock_toggle, num_dqs, inputs)

total_dqs_rd(inputs) ==
    ClassPower(calc_power_drop_across_driver(inputs.vddq, inputs.r_on_dram, inputs.r_tt_host),
               inputs.rd_duty, inputs.prob_clock_toggle, num_dqs, inputs)

total_dqs(inputs) == RAdd(total_dqs_wr(inputs), total_dqs_rd(inputs))

total_cs(inputs) ==
    ClassPower(calc_power_drop_across_term(inputs.vddq, inputs.r_on_host, inputs.r_tt_ca),
               inputs.cs_util, inputs.prob_cmd_zero, num_cs(inputs), inputs)

total_power_without_cs(inputs) ==
    RAdd(RAdd(RAdd(RAdd(RAdd(total_dq_write(inputs), total_dq_read(inputs)),
                        total_ca(inputs)), total_ck(inputs)),
              total_wck(inputs)), total_dqs(inputs))

total_power(inputs) ==
    RAdd(RAdd(RAdd(RAdd(RAdd(RAdd(total_dq_write(inputs), total_dq_read(inputs)),
                             total_ca(inputs)), total_ck(inputs)),
                   total_wck(inputs)), total_dqs(inputs)), total_cs(inputs))

InterfaceKeys ==
    {"P_DQ_WRITE", "P_DQ_READ", "P_CA", "P_CK", "P_WCK", "P_DQS", "P_CS",
     "P_total_interface"}

calculate_termination_power(inputs) ==
    [k \in InterfaceKeys |->
       CASE k = "P_DQ_WRITE" -> total_dq_write(inputs)
         [] k = "P_DQ_READ" -> total_dq_read(inputs)
         [] k = "P_CA" -> total_ca(inputs)
         [] k = "P_CK" -> total_ck(inputs)
         [] k = "P_WCK" -> total_wck(inputs)
         [] k = "P_DQS" -> total_dqs(inputs)
         [] k = "P_CS" -> total_cs(inputs)
         [] OTHER -> total_power(inputs)]

\* compute_dynamic: switching power P = pins * C * V^2 * f * activity with
\* placeholder capacitances.  Capacitances are in pF and frequencies in MHz;
\* PicoMega is the factor 1e-12 * 1e6 that brings the product back to watts.
c_dq == Frac(7, 2)
c_ca == R(8)
c_ck == R(12)
c_dqs == Frac(7, 2)
f_clock == R(2400)
f_ca == RDiv(f_clock, R(2))
PicoMega == Frac(1, 1000000)

DynamicKeys == {"P_DQ_dyn", "P_CA_dyn", "P_CK_dyn", "P_DQS_dyn", "P_Total_Dynamic"}

P_DQ_dyn(input) ==
    RMul(RMul(RMul(RMul(RMul(RMul(R(num_dq), c_dq), RMul(input.vddq, input.vddq)),
                        f_clock), PicoMega), Frac(1, 2)),
         RAdd(input.rd_duty, input.wr_duty))

P_CA_dyn(input) ==
    RMul(RMul(RMul(RMul(RMul(RMul(R(num_ca), c_ca), RMul(input.vddq, input.vddq)),
                        f_ca), PicoMega), Frac(1, 2)),
         input.ca_util)

P_CK_dyn(input) ==
    RMul(R(num_ck * 2),
         RMul(RMul(RMul(c_ck, RMul(input.vddq, input.vddq)), f_clock), PicoMega))

P_DQS_dyn(input) ==
    RMul(RMul(R(num_dqs * 2),
              RMul(RMul(RMul(c_dqs, RMul(input.vddq, input.vddq)), f_clock), PicoMega)),
         RAdd(input.rd_duty, input.wr_duty))

compute_dynamic(input) ==
    [k \in DynamicKeys |->
       CASE k = "P_DQ_dyn" -> P_DQ_dyn(input)
         [] k = "P_CA_dyn" -> P_CA_dyn(input)
         [] k = "P_CK_dyn" -> P_CK_dyn(input)
         [] k = "P_DQS_dyn" -> P_DQS_dyn(input)
         [] OTHER -> RAdd(RAdd(RAdd(P_DQ_dyn(input), P_CA_dyn(input)),
                               P_CK_dyn(input)), P_DQS_dyn(input))]

\* The InterfacePowerInputs compute() builds from the memspec and workload.
compute_inputs(ms, wl) ==
    InterfacePowerInputs(ms.mempowerspec.vddq,
                         RDiv(wl.RDsch_percent, Hundred),
                         RDiv(wl.WRsch_percent, Hundred),
                         Frac(15, 100), Frac(22, 100))

\* What compute() would return if it merged the dynamic breakdown in.
DDR5InterfacePowerModel_compute_with_dynamic(ms, wl) ==
    LET termination == calculate_termination_power(compute_inputs(ms, wl))
        dynamic == compute_dynamic(compute_inputs(ms, wl))
    IN  Return(Some(
          [k \in InterfaceKeys \cup DynamicKeys |->
             IF k = "P_total_interface"
             THEN RAdd(termination[k], dynamic["P_Total_Dynamic"])
             ELSE IF k \in InterfaceKeys THEN termination[k] ELSE dynamic[k]]))

\* compute() evaluates both breakdowns and returns the termination one; the
\* dynamic one is bound to a local and dropped.
DDR5InterfacePowerModel_compute(ms, wl) ==
    LET termination == calculate_termination_power(compute_inputs(ms, wl))
        dynamic == compute_dynamic(compute_inputs(ms, wl))
    IN  Return(Some(termination))

(***************************************************************************)
(* src/interface_model.py: InterfacePowerModel (channel-level model of the *)
(* older DIMM)                                                             *)
(***************************************************************************)
solve_power(v, Rtt) == RDiv(RMul(v, v), Rtt)

\* The InterfacePowerInputs that DIMM.load_specs builds.
LegacyInterfaceInput ==
    [vdd |-> Frac(11, 10), vddq |-> Frac(11, 10),
     num_subchannels |-> 2, subchannel_width_bits |-> 32,
     device_width_bits |-> 8, num_ranks |-> 1,
     num_ca |-> 28, num_cs |-> 1,
     rd_duty |-> Frac(15, 100), wr_duty |-> Frac(7, 100),
     ca_util |-> Frac(15, 100), cs_util |-> Frac(22, 100),
     r_ca |-> R(80), r_cs |-> R(80), r_ck |-> R(50), r_dq |-> R(80),
     r_dqs |-> R(80)]

LegacyInterfaceKeys ==
    {"devices_per_rank", "num_other_devices", "dq_bits_per_device",
     "dqs_per_device", "P_CA", "P_CS", "P_CK", "P_DQ_READ_target",
     "P_DQ_READ_others", "P_DQ_WRITE_all", "P_DQS", "P_total_interface"}

compute_termination(input) ==
    LET rank_bus_width_bits == input.num_subchannels * input.subchannel_width_bits
        devices_per_rank == rank_bus_width_bits \div input.device_width_bits
        num_other_devices == devices_per_rank - 1
        dq_bits_per_device == input.device_width_bits
        dqs_per_device == (input.device_width_bits \div 8) * 2
        P_CA == RMul(RMul(R(input.num_ca), solve_power(input.vdd, input.r_ca)), input.ca_util)
        P_CS == RMul(RMul(R(input.num_cs), solve_power(input.vdd, input.r_cs)), input.cs_util)
        P_CK == RMul(R(2), solve_power(input.vdd, input.r_ck))
        P_DQ_READ_target ==
            RMul(RMul(R(dq_bits_per_device), solve_power(input.vddq, input.r_dq)), input.rd_duty)
        P_DQ_READ_others ==
            RMul(RMul(R(dq_bits_per_device * num_other_devices),
                      solve_power(input.vddq, input.r_dq)), input.rd_duty)
        P_DQ_WRITE ==
            RMul(RMul(R(dq_bits_per_device * devices_per_rank),
                      solve_power(input.vddq, input.r_dq)), input.wr_duty)
        P_DQS == RMul(RMul(R(dqs_per_device), solve_power(input.vddq, input.r_dqs)),
                      RAdd(input.rd_duty, input.wr_duty))
        P_total == RAdd(RAdd(RAdd(RAdd(RAdd(RAdd(P_CA, P_CS), P_CK), P_DQ_READ_target),
                                  P_DQ_READ_others), P_DQ_WRITE), P_DQS)
    IN  [k \in LegacyInterfaceKeys |->
           CASE k = "devices_per_rank" -> R(devices_per_rank)
             [] k = "num_other_devices" -> R(num_other_devices)
             [] k = "dq_bits_per_device" -> R(dq_bits_per_device)
             [] k = "dqs_per_device" -> R(dqs_per_device)
             [] k = "P_CA" -> P_CA
             [] k = "P_CS" -> P_CS
             [] k = "P_CK" -> P_CK
             [] k = "P_DQ_READ_target" -> P_DQ_READ_target
             [] k = "P_DQ_READ_others" -> P_DQ_READ_others
             [] k = "P_DQ_WRITE_all" -> P_DQ_WRITE
             [] k = "P_DQS" -> P_DQS
             [] OTHER -> P_total]

InterfacePowerModel_compute_all(input) == Return(Some(compute_termination(input)))

(***************************************************************************)
(* src/ddr5.py: the DDR5 device composer                                   *)
(*                                                                         *)
(* A method is an operator from the instance to the instance after the     *)
(* call and the call's outcome.  memspec and workload are the shared       *)
(* records the instance refers to.                                         *)
(***************************************************************************)
DDR5(core_model, interface_model) ==
    [core_model |-> core_model, interface_model |-> interface_model,
     corepower |-> None, interfacepower |-> None, totalpower |-> None]

Call(self, out) == [self |-> self, out |-> out]

\* self.<field> = <model>.compute(...); return self.<field>.  An exception
\* of the model propagates and leaves the field as it was.
DDR5_assign(self, field, out) ==
    IF out.exc # "none"
    THEN Call(self, out)
    ELSE Call([self EXCEPT ![field] = out.val], out)

DDR5_compute_core_clearing(self, ms, wl) ==
    IF ~self.core_model
    THEN Call([self EXCEPT !.interfacepower = None, !.totalpower = None],
              Raise("ValueError"))
    ELSE DDR5_assign(self, "corepower", DDR5CorePowerModel_compute(ms, wl))

DDR5_compute_core(self, ms, wl) ==
    IF ~self.core_model
    THEN Call(self, Raise("ValueError"))
    ELSE DDR5_assign(self, "corepower", DDR5CorePowerModel_compute(ms, wl))

DDR5_compute_interface(self, ms, wl) ==
    IF ~self.interface_model
    THEN Call(self, Raise("ValueError"))
    ELSE DDR5_assign(self, "interfacepower", DDR5InterfacePowerModel_compute(ms, wl))

\* The keys of d, each prefixed (f"core.{k}", f"if.{k}").
Namespaced(prefix, d) ==
    LET keys == {prefix \o k : k \in DOMAIN d}
    IN  [nk \in keys |-> d[CHOOSE k \in DOMAIN d : prefix \o k = nk]]

\* merged.update(...) twice, then the three totals.
Update(d, e) ==
    [k \in DOMAIN d \cup DOMAIN e |-> IF k \in DOMAIN e THEN e[k] ELSE d[k]]

\* Totals whose grand total forgets the interface.
MergedTotals_core_only(core, interface) ==
    LET core_total == Get(core, "P_total_core")
        if_total == Get(interface, "P_total_interface")
    IN  [k \in {"P_total_core", "P_total_interface", "P_total"} |->
           CASE k = "P_total_core" -> core_total
             [] k = "P_total_interface" -> if_total
             [] OTHER -> core_total]

MergedTotals(core, interface) ==
    LET core_total == Get(core, "P_total_core")
        if_total == Get(interface, "P_total_interface")
    IN  [k \in {"P_total_core", "P_total_interface", "P_total"} |->
           CASE k = "P_total_core" -> core_total
             [] k = "P_total_interface" -> if_total
             [] OTHER -> RAdd(core_total, if_total)]

Merged_interface_unprefixed(core, interface) ==
    Update(Update(Namespaced("core.", core), interface),
           MergedTotals(core, interface))

Merged(core, interface) ==
    Update(Update(Namespaced("core.", core), Namespaced("if.", interface)),
           MergedTotals(core, interface))

\* compute_all after both breakdowns are there: merge, cache, return.
DDR5_merge(self, merged) ==
    Call([self EXCEPT !.totalpower = Some(merged)], Return(Some(merged)))

\* compute_all from the call of compute_interface on: i is that call, core
\* the breakdown compute_core returned.
DDR5_all_interface(core, i) ==
    IF i.out.exc # "none"
    THEN i
    ELSE DDR5_merge(i.self, Merged(core, i.out.val.d))

\* compute_all from the call of compute_core on: c is that call.
DDR5_all_core(c, ms, wl) ==
    IF c.out.exc # "none"
    THEN c
    ELSE DDR5_all_interface(c.out.val.d, DDR5_compute_interface(c.self, ms, wl))

DDR5_compute_all(self, ms, wl) ==
    DDR5_all_core(DDR5_compute_core(self, ms, wl), ms, wl)

(***************************************************************************)
(* collections.Counter as the DIMMs use it                                 *)
(***************************************************************************)
\* Counter(x): an empty counter for None, the dict's items otherwise.
Counter(opt) == IF opt.some THEN opt.d ELSE EmptyDict

\* Counter.__add__: key-wise sum, keeping only the positive counts.
CounterAdd(a, b) ==
    LET sum(k) == RAdd(Get(a, k), Get(b, k))
    IN  [k \in {x \in DOMAIN a \cup DOMAIN b : RPos(sum(x))} |-> sum(k)]

\* self.<field> = dict(Counter(self.<field>) + Counter(value))
Accumulate(self, field, value) ==
    [self EXCEPT ![field] = Some(CounterAdd(Counter(self[field]), Counter(value)))]

(***************************************************************************)
(* core/src/dimm.py: DIMM                                                  *)
(*                                                                         *)
(* The loop state st is the DIMM so far and the exception, if any, that a  *)
(* device raised; an exception ends the call with the fields as they are.  *)
(***************************************************************************)
NoList == [some |-> FALSE, l |-> << >>]
List(l) == [some |-> TRUE, l |-> l]

DIMM(dram_list) ==
    [dram_list |-> dram_list,
     corepower |-> None, interfacepower |-> None, totalpower |-> None]

\* The device at index i is left as the call left it; on success the DIMM
\* field accumulates the returned breakdown.
DIMM_step(st, i, field, call) ==
    IF call.out.exc # "none"
    THEN [self |-> [st.self EXCEPT !.dram_list.l[i] = call.self],
          exc |-> call.out.exc]
    ELSE [self |-> Accumulate([st.self EXCEPT !.dram_list.l[i] = call.self],
                              field, call.out.val),
          exc |-> "none"]

DIMM_add_core(st, i, ms, wl) ==
    DIMM_step(st, i, "corepower", DDR5_compute_core(st.self.dram_list.l[i], ms, wl))

DIMM_add_interface(st, i, ms, wl) ==
    IF st.exc # "none" THEN st
    ELSE DIMM_step(st, i, "interfacepower",
                   DDR5_compute_interface(st.self.dram_list.l[i], ms, wl))

DIMM_add_total(st, i, ms, wl) ==
    IF st.exc # "none" THEN st
    ELSE DIMM_step(st, i, "totalpower", DDR5_compute_all(st.self.dram_list.l[i], ms, wl))

\* One iteration of the loop body, lines 45-47.
DIMM_iteration(st, i, ms, wl) ==
    DIMM_add_total(DIMM_add_interface(DIMM_add_core(st, i, ms, wl), i, ms, wl), i, ms, wl)

RECURSIVE DIMM_loop(_, _, _, _)
DIMM_loop(st, i, ms, wl) ==
    IF i > Len(st.self.dram_list.l) \/ st.exc # "none"
    THEN st
    ELSE DIMM_loop(DIMM_iteration(st, i, ms, wl), i + 1, ms, wl)

DIMM_return(st) ==
    IF st.exc # "none"
    THEN Call(st.self, Raise(st.exc))
    ELSE Call(st.self, Return(st.self.totalpower))

DIMM_compute_all(self, ms, wl) ==
    IF ~self.dram_list.some
    THEN Call(self, Raise("ValueError"))
    ELSE DIMM_return(DIMM_loop([self |-> self, exc |-> "none"], 1, ms, wl))

(***************************************************************************)
(* src/dimm.py: the older DIMM with a channel-level interface model        *)
(***************************************************************************)
LegacyDIMM(dram_list, interface_input) ==
    [dram_list |-> dram_list, interface_input |-> interface_input,
     corepower |-> None, interfacepower |-> None, totalpower |-> None]

RECURSIVE LegacyDIMM_loop(_, _, _, _)
LegacyDIMM_loop(st, i, ms, wl) ==
    IF i > Len(st.self.dram_list.l) \/ st.exc # "none"
    THEN st
    ELSE LegacyDIMM_loop(DIMM_add_core(st, i, ms, wl), i + 1, ms, wl)

\* Lines 77-80 with self.interfacepower set: the Counter sum of the two
\* breakdowns and P_total from the two totals.  self.corepower[...] raises
\* TypeError on None and KeyError on a missing key.
LegacyDIMM_total(self) ==
    IF ~self.corepower.some
    THEN Call(self, Raise("TypeError"))
    ELSE IF "P_total_core" \notin DOMAIN self.corepower.d
    THEN Call(self, Raise("KeyError"))
    ELSE DDR5_merge(self,
           Update(CounterAdd(Counter(self.corepower), Counter(self.interfacepower)),
                  [k \in {"P_total"} |->
                     RAdd(self.corepower.d["P_total_core"],
                          self.interfacepower.d["P_total_interface"])]))

\* Line 76: the channel-level interface breakdown, computed once.
LegacyDIMM_finish(st) ==
    IF st.exc # "none"
    THEN Call(st.self, Raise(st.exc))
    ELSE LegacyDIMM_total(
           [st.self EXCEPT !.interfacepower =
              InterfacePowerModel_compute_all(st.self.interface_input).val])

LegacyDIMM_compute_all(self, ms, wl) ==
    IF ~self.dram_list.some
    THEN Call(self, Raise("ValueError"))
    ELSE LegacyDIMM_finish(LegacyDIMM_loop([self |-> self, exc |-> "none"], 1, ms, wl))

(***************************************************************************)
(* src/parser.py: load_memspec and load_workload                           *)
(*                                                                         *)
(* A JSON object is a function from its keys to its values.  A leaf value  *)
(* is a number, a string that float() can read, any other string, or null. *)
(* The loaders read the fields in the order of the source; the first field *)
(* that fails decides the exception, and arg is the key a KeyError names.  *)
(***************************************************************************)
Num(x) == [kind |-> "number", v |-> x]
NumText(x) == [kind |-> "numeric string", v |-> x]
Text == [kind |-> "string", v |-> Zero]
Null == [kind |-> "null", v |-> Zero]

Converted(v) == [exc |-> "none", v |-> v]
NotConverted(e) == [exc |-> e, v |-> Zero]

\* float(x): ValueError for a string that is no number, TypeError for null.
float_type_error(j) ==
    CASE j.kind \in {"number", "numeric string"} -> Converted(j.v)
      [] OTHER -> NotConverted("TypeError")

float(j) ==
    CASE j.kind \in {"number", "numeric string"} -> Converted(j.v)
      [] j.kind = "string" -> NotConverted("ValueError")
      [] OTHER -> NotConverted("TypeError")

\* int(x): truncates a number towards zero; reads a string only if it
\* spells an integer.
int(j) ==
    CASE j.kind = "number" ->
           Converted(R(IF j.v[1] >= 0 THEN j.v[1] \div j.v[2]
                       ELSE -((-j.v[1]) \div j.v[2])))
      [] j.kind = "numeric string" ->
           IF j.v[2] = 1 THEN Converted(j.v) ELSE NotConverted("ValueError")
      [] j.kind = "string" -> NotConverted("ValueError")
      [] OTHER -> NotConverted("TypeError")

ArchKeys ==
    <<"width", "nbrOfBanks", "nbrOfBankGroups", "nbrOfRanks", "nbrOfColumns",
      "nbrOfRows", "burstLength", "dataRate">>

PowerKeys ==
    <<"vdd", "vpp", "vddq", "idd0", "idd2n", "idd3n", "idd4r", "idd4w", "idd5b",
      "idd6n", "idd2p", "idd3p", "ipp0", "ipp2n", "ipp3n", "ipp4r", "ipp4w",
      "ipp5b", "ipp6n", "ipp2p", "ipp3p">>

TimingKeys == <<"tCK", "RAS", "RCD", "RP", "RFC1", "RFC2", "RFCsb", "REFI">>

WorkloadKeys ==
    <<"BNK_PRE_percent", "CKE_LO_PRE_percent", "CKE_LO_ACT_percent",
      "PageHit_percent", "RDsch_percent", "RD_Data_Low_percent",
      "WRsch_percent", "WR_Data_Low_percent", "termRDsch_percent",
      "termWRsch_percent", "System_tRC_ns", "tRRDsch_ns">>

Range(seq) == {seq[i] : i \in 1..Len(seq)}

\* The conversion the loader applies to a field: float() for the power
\* fields, the workload fields and tCK, int() for the rest.
Coerce(keys, k, j) == IF keys = ArchKeys \/ (keys = TimingKeys /\ k # "tCK") THEN int(j) ELSE float(j)

Loaded(rec) == [exc |-> "none", arg |-> "", rec |-> rec]
KeyError_unnamed(k) == [exc |-> "KeyError", arg |-> "", rec |-> << >>]

KeyError(k) == [exc |-> "KeyError", arg |-> k, rec |-> << >>]
ConversionError(e) == [exc |-> e, arg |-> "", rec |-> << >>]

\* The first field of keys, from index i on, whose lookup or conversion
\* raises; Loaded(<< >>) if none does.
RECURSIVE FirstError(_, _, _)
FirstError(obj, keys, i) ==
    IF i > Len(keys) THEN Loaded(<< >>)
    ELSE IF keys[i] \notin DOMAIN obj THEN KeyError(keys[i])
    ELSE IF Coerce(keys, keys[i], obj[keys[i]]).exc # "none"
    THEN ConversionError(Coerce(keys, keys[i], obj[keys[i]]).exc)
    ELSE FirstError(obj, keys, i + 1)

\* The dataclass built from an object all of whose fields convert.  The
\* integer fields of the timing and architecture records are plain integers.
Fields(obj, keys) ==
    [k \in Range(keys) |->
       IF keys = ArchKeys \/ (keys = TimingKeys /\ k # "tCK")
       THEN Coerce(keys, k, obj[k]).v[1]
       ELSE Coerce(keys, k, obj[k]).v]

\* str(raw.get(k, "")).
GetStr(raw, k) == IF k \in DOMAIN raw THEN raw[k] ELSE ""

\* load_memspec from the point where the three sections have been looked up.
load_memspec_sections(raw) ==
    IF FirstError(raw["memarchitecturespec"], ArchKeys, 1).exc # "none"
    THEN FirstError(raw["memarchitecturespec"], ArchKeys, 1)
    ELSE IF FirstError(raw["mempowerspec"], PowerKeys, 1).exc # "none"
    THEN FirstError(raw["mempowerspec"], PowerKeys, 1)
    ELSE IF FirstError(raw["memtimingspec"], TimingKeys, 1).exc # "none"
    THEN FirstError(raw["memtimingspec"], TimingKeys, 1)
    ELSE Loaded([memoryId |-> GetStr(raw, "memoryId"),
                 memoryType |-> GetStr(raw, "memoryType"),
                 memarchitecturespec |-> Fields(raw["memarchitecturespec"], ArchKeys),
                 mempowerspec |-> Fields(raw["mempowerspec"], PowerKeys),
                 memtimingspec |-> Fields(raw["memtimingspec"], TimingKeys)])

load_memspec(doc) ==
    IF "memspec" \notin DOMAIN doc THEN KeyError("memspec")
    ELSE IF "memarchitecturespec" \notin DOMAIN doc["memspec"]
    THEN KeyError("memarchitecturespec")
    ELSE IF "mempowerspec" \notin DOMAIN doc["memspec"]
    THEN KeyError("mempowerspec")
    ELSE IF "memtimingspec" \notin DOMAIN doc["memspec"]
    THEN KeyError("memtimingspec")
    ELSE load_memspec_sections(doc["memspec"])

load_workload(raw) ==
    IF FirstError(raw, WorkloadKeys, 1).exc # "none"
    THEN FirstError(raw, WorkloadKeys, 1)
    ELSE Loaded(Fields(raw, WorkloadKeys))

(***************************************************************************)
(* backend/src/main.py: the calculate endpoints                            *)
(*                                                                         *)
(* A handler invocation is the record of its local variables.  Its steps   *)
(* are the conversion of the request and the construction of the models    *)
(* and instances, the compute call, and the response.                      *)
(***************************************************************************)
memspec_model_to_obj_timing_swapped(memspec_model) ==
    LET a == memspec_model.memarchitecturespec
        p == memspec_model.mempowerspec
        t == memspec_model.memtimingspec
    IN  [memarchitecturespec |-> [width |-> a.width, nbrOfDevices |-> a.nbrOfDevices],
         mempowerspec |-> p,
         memtimingspec |->
            [tCK |-> t.tCK, RAS |-> t.RP, RP |-> t.RAS, RFC1 |-> t.RFC1,
             REFI |-> t.REFI]]

memspec_model_to_obj(memspec_model) ==
    LET a == memspec_model.memarchitecturespec
        p == memspec_model.mempowerspec
        t == memspec_model.memtimingspec
    IN  [memarchitecturespec |-> [width |-> a.width, nbrOfDevices |-> a.nbrOfDevices],
         mempowerspec |->
            [vdd |-> p.vdd, vpp |-> p.vpp, vddq |-> p.vddq,
             idd0 |-> p.idd0, idd2n |-> p.idd2n, idd3n |-> p.idd3n,
             idd4r |-> p.idd4r, idd4w |-> p.idd4w, idd5b |-> p.idd5b,
             idd2p |-> p.idd2p, idd3p |-> p.idd3p,
             ipp0 |-> p.ipp0, ipp2n |-> p.ipp2n, ipp3n |-> p.ipp3n,
             ipp5b |-> p.ipp5b],
         memtimingspec |->
            [tCK |-> t.tCK, RAS |-> t.RAS, RP |-> t.RP, RFC1 |-> t.RFC1,
             REFI |-> t.REFI]]

workload_model_to_obj(workload_model) ==
    [BNK_PRE_percent |-> workload_model.BNK_PRE_percent,
     CKE_LO_PRE_percent |-> workload_model.CKE_LO_PRE_percent,
     CKE_LO_ACT_percent |-> workload_model.CKE_LO_ACT_percent,
     RDsch_percent |-> workload_model.RDsch_percent,
     WRsch_percent |-> workload_model.WRsch_percent,
     tRRDsch_ns |-> workload_model.tRRDsch_ns]

\* memspec.memarchitecturespec.nbrOfDevices or 1
nbr_of_devices(ms) ==
    IF ms.memarchitecturespec.nbrOfDevices = 0
    THEN 1
    ELSE ms.memarchitecturespec.nbrOfDevices

Endpoints == {"core", "interface", "all", "dimm"}

NoResponse == [status_code |-> 0, body |-> EmptyDict, detail |-> ""]

\* No request: the handler has not been invoked.
Idle ==
    [pc |-> "idle", endpoint |-> "", request |-> << >>, memspec |-> << >>,
     workload |-> << >>, ddr5 |-> DDR5(FALSE, FALSE), dimm |-> DIMM(NoList),
     result |-> Return(None), response |-> NoResponse]

\* The models an endpoint constructs and hands to its DDR5.
Handler_ddr5(endpoint) ==
    DDR5(endpoint \in {"core", "all"}, endpoint \in {"interface", "all"})

\* The dram_list loop of calculate_dimm_power and the DIMM over it.
Handler_dimm(endpoint, ms) ==
    IF endpoint = "dimm"
    THEN DIMM(List([i \in 1..nbr_of_devices(ms) |-> DDR5(TRUE, TRUE)]))
    ELSE DIMM(NoList)

Handler_construct(f) ==
    [f EXCEPT !.pc = "built",
              !.ddr5 = Handler_ddr5(f.endpoint),
              !.dimm = Handler_dimm(f.endpoint, f.memspec)]

\* The handler's first lines: the two conversions, then the construction.
Handler_build(endpoint, request) ==
    Handler_construct([Idle EXCEPT !.endpoint = endpoint,
                                   !.request = request,
                                   !.memspec = memspec_model_to_obj(request.memspec),
                                   !.workload = workload_model_to_obj(request.workload)])

\* result = ddr5.compute_core() / compute_interface() / compute_all(), or
\* dimm.compute_all(), on the instance the handler built.
Handler_call(f) ==
    CASE f.endpoint = "core" -> DDR5_compute_core(f.ddr5, f.memspec, f.workload)
      [] f.endpoint = "interface" -> DDR5_compute_interface(f.ddr5, f.memspec, f.workload)
      [] f.endpoint = "all" -> DDR5_compute_all(f.ddr5, f.memspec, f.workload)
      [] OTHER -> DIMM_compute_all(f.dimm, f.memspec, f.workload)

Handler_store(f, call) ==
    [f EXCEPT !.pc = "computed",
              !.ddr5 = IF f.endpoint = "dimm" THEN @ ELSE call.self,
              !.dimm = IF f.endpoint = "dimm" THEN call.self ELSE @,
              !.result = call.out]

Handler_compute(f) == Handler_store(f, Handler_call(f))

\* return result, or except Exception as e: raise HTTPException(500, str(e)).
Handler_respond(f) ==
    [f EXCEPT !.pc = "done",
              !.response = IF f.result.exc = "none"
                           THEN [status_code |-> 200, body |-> f.result.val.d,
                                 detail |-> ""]
                           ELSE [status_code |-> 500, body |-> EmptyDict,
                                 detail |-> f.result.exc]]

\* One request served from start to end with nothing else running.
calculate(endpoint, request) ==
    Handler_respond(Handler_compute(Handler_build(endpoint, request)))

\* The local variables of request i's handler invocation.
Handler_locals_module_level(requests, i) ==
    IF requests[1].pc = "idle"
    THEN requests[i]
    ELSE [requests[i] EXCEPT !.memspec = requests[1].memspec,
                             !.workload = requests[1].workload,
                             !.ddr5 = requests[1].ddr5,
                             !.dimm = requests[1].dimm]

Handler_locals(requests, i) == requests[i]

(***************************************************************************)
(* Inputs                                                                  *)
(***************************************************************************)
\* idd = <<idd0, idd2n, idd2p, idd3n, idd3p, idd4r, idd4w, idd5b>>,
\* ipp = <<ipp0, ipp2n, ipp3n, ipp5b>>, in amperes.
PowerSpec(idd, ipp) ==
    [vdd |-> Frac(11, 10), vpp |-> Frac(9, 5), vddq |-> Frac(11, 10),
     idd0 |-> R(idd[1]), idd2n |-> R(idd[2]), idd2p |-> R(idd[3]),
     idd3n |-> R(idd[4]), idd3p |-> R(idd[5]), idd4r |-> R(idd[6]),
     idd4w |-> R(idd[7]), idd5b |-> R(idd[8]),
     ipp0 |-> R(ipp[1]), ipp2n |-> R(ipp[2]), ipp3n |-> R(ipp[3]),
     ipp5b |-> R(ipp[4])]

\* A well-formed datasheet, a well-formed one whose incremental currents are
\* all 0 (idd0 = idd2n, idd4r = idd4w = idd5b = idd3n, ipp0 = ipp2n,
\* ipp5b = ipp3n), one with every current 0, and a malformed one whose
\* incremental currents are negative (nothing enforces an ordering).
NominalPower == PowerSpec(<<12, 4, 3, 10, 9, 21, 24, 30>>, <<5, 4, 1, 10>>)
FlatPower == PowerSpec(<<4, 4, 3, 10, 9, 10, 10, 10>>, <<4, 4, 1, 1>>)
ZeroPower == PowerSpec(<<0, 0, 0, 0, 0, 0, 0, 0>>, <<0, 0, 0, 0>>)
InvertedPower == PowerSpec(<<2, 4, 3, 10, 9, 5, 10, 1>>, <<1, 4, 1, 0>>)

TimingSpec(tCK, REFI) ==
    [tCK |-> tCK, RAS |-> 28, RP |-> 14, RFC1 |-> 350, REFI |-> REFI]

HalfNanoSecond == Frac(1, 2000000000)
NominalTiming == TimingSpec(HalfNanoSecond, 7000)

MemSpec(width, p, t) ==
    [memarchitecturespec |-> [width |-> width], mempowerspec |-> p,
     memtimingspec |-> t]

\* The x8 specifications every workload is run with.
RangeSpecs ==
    {MemSpec(8, p, NominalTiming) :
        p \in {NominalPower, FlatPower, ZeroPower, InvertedPower}}

\* A x16 device, and timings nothing validates: REFI = 0, tCK = 0, tCK < 0.
MemSpecs ==
    RangeSpecs
    \cup {MemSpec(16, NominalPower, NominalTiming)}
    \cup {MemSpec(8, NominalPower, t) :
            t \in {TimingSpec(HalfNanoSecond, 0), TimingSpec(Zero, 7000),
                   TimingSpec(RNeg(HalfNanoSecond), 7000)}}

Workload(b, rd, wr, rrd) ==
    [BNK_PRE_percent |-> R(b[1]), CKE_LO_PRE_percent |-> R(b[2]),
     CKE_LO_ACT_percent |-> R(b[3]), RDsch_percent |-> R(rd),
     WRsch_percent |-> R(wr), tRRDsch_ns |-> R(rrd)]

\* Percentages inside [0, 100], the all-zero workload among them.
RangeWorkloads ==
    {Workload(b, rd, wr, rrd) :
        b \in {<<0, 0, 0>>, <<50, 0, 0>>, <<100, 50, 50>>},
        rd \in {0, 50}, wr \in {0, 50}, rrd \in {0, 4, 28}}

\* Read / write percentages below 0 and above 100 (nothing validates them).
OutOfRangeWorkloads ==
    {Workload(<<50, 0, 0>>, rw[1], rw[2], 28) :
        rw \in {<<-50, 50>>, <<150, 50>>, <<50, -50>>, <<50, 150>>}}

Workloads == RangeWorkloads \cup OutOfRangeWorkloads

\* The workloads the specifications outside RangeSpecs are run with.
ProbeWorkloads == {Workload(<<50, 0, 0>>, 50, 50, rrd) : rrd \in {0, 4, 28}}

\* The devices of a DIMM are built alike: with both models by the current
\* DIMM's callers, with the core model only by the older DIMM.
DeviceLists(core_model, interface_model) ==
    {NoList} \cup
    {List([i \in 1..n |-> DDR5(core_model, interface_model)]) : n \in 0..MaxDevices}

\* JSON documents: the complete specification document of the nominal x8
\* device, and the documents that differ from it in one place.
ObjectOf(keys, values) ==
    [k \in Range(keys) |-> Num(values[CHOOSE i \in 1..Len(keys) : keys[i] = k])]

Without(obj, k) == [x \in DOMAIN obj \ {k} |-> obj[x]]

NominalRaw ==
    [memoryId |-> "test", memoryType |-> "DDR5",
     memarchitecturespec |->
        ObjectOf(ArchKeys, <<R(8), R(16), R(2), R(1), R(1024), R(65536), R(8), R(2)>>),
     mempowerspec |->
        ObjectOf(PowerKeys,
                 <<Frac(11, 10), Frac(9, 5), Frac(11, 10), R(12), R(4), R(10),
                   R(21), R(24), R(30), R(0), R(3), R(9), R(5), R(4), R(1),
                   R(0), R(0), R(10), R(0), R(0), R(0)>>),
     memtimingspec |->
        ObjectOf(TimingKeys,
                 <<HalfNanoSecond, R(28), R(14), R(14), R(350), R(0), R(0), R(7000)>>)]

Sections == {"memarchitecturespec", "mempowerspec", "memtimingspec"}

Document(raw) == [k \in {"memspec"} |-> raw]

MemspecDocs ==
    {Document(NominalRaw), [k \in {} |-> NominalRaw]}
    \cup {Document(Without(NominalRaw, k)) : k \in DOMAIN NominalRaw}
    \cup UNION {{Document([NominalRaw EXCEPT ![s] = Without(NominalRaw[s], k)]) :
                    k \in DOMAIN NominalRaw[s]} : s \in Sections}
    \cup UNION {{Document([NominalRaw EXCEPT ![s][k] = Text]) :
                    k \in DOMAIN NominalRaw[s]} : s \in Sections}
    \cup {Document([NominalRaw EXCEPT !["memtimingspec"]["tCK"] = j]) :
            j \in {Null, NumText(HalfNanoSecond)}}
    \cup {Document([NominalRaw EXCEPT !["memarchitecturespec"]["width"] = j]) :
            j \in {Num(Frac(17, 2)), NumText(Frac(17, 2))}}

NominalWorkloadDoc ==
    ObjectOf(WorkloadKeys,
             <<R(50), R(0), R(0), R(0), R(50), R(0), R(50), R(0), R(0), R(0),
               R(0), R(4)>>)

WorkloadDocs ==
    {NominalWorkloadDoc}
    \cup {Without(NominalWorkloadDoc, k) : k \in DOMAIN NominalWorkloadDoc}
    \cup {[NominalWorkloadDoc EXCEPT ![k] = Text] : k \in DOMAIN NominalWorkloadDoc}

\* The request bodies: the models of a specification for a DIMM of n devices
\* and of a workload, as the clients build them.
MemSpecModel(ms, n) ==
    [memarchitecturespec |->
        [width |-> ms.memarchitecturespec.width, nbrOfDevices |-> n],
     mempowerspec |-> ms.mempowerspec,
     memtimingspec |-> ms.memtimingspec]

PowerCalculationRequest(ms, n, wl) == [memspec |-> MemSpecModel(ms, n), workload |-> wl]

Requests ==
    {PowerCalculationRequest(sn[1], sn[2], wl) :
        sn \in {<<MemSpec(8, NominalPower, NominalTiming), 0>>,
                <<MemSpec(8, NominalPower, NominalTiming), MaxDevices>>,
                <<MemSpec(8, NominalPower, TimingSpec(HalfNanoSecond, 0)), 1>>},
        wl \in {Workload(<<50, 0, 0>>, 50, 50, 28), Workload(<<50, 0, 0>>, 0, 50, 4)}}

RequestIds == {1, 2}

NoCall == [op |-> "none", exc |-> "none", val |-> None]
NoLoad == [op |-> "none", doc |-> << >>, exc |-> "none", arg |-> ""]

Init ==
    /\ memspec \in MemSpecs
    /\ workload \in Workloads
    /\ memspec \notin RangeSpecs => workload \in ProbeWorkloads
    /\ target \in {"DDR5", "DIMM", "LegacyDIMM", "Parser", "Backend", "Regression"}
    /\ target \in {"Parser", "Backend"} =>
          /\ memspec = MemSpec(8, NominalPower, NominalTiming)
          /\ workload = Workload(<<50, 0, 0>>, 50, 50, 4)
    /\ dev \in IF target = "DDR5"
               THEN {DDR5(c, i) : c \in BOOLEAN, i \in BOOLEAN}
               ELSE {DDR5(FALSE, FALSE)}
    /\ dimm \in CASE target = "DIMM" ->
                     {DIMM(l) : l \in DeviceLists(TRUE, TRUE)}
                  [] target = "LegacyDIMM" ->
                     {LegacyDIMM(l, LegacyInterfaceInput) : l \in DeviceLists(TRUE, FALSE)}
                  [] OTHER -> {DIMM(NoList)}
    /\ ret = NoCall
    /\ hist = << >>
    /\ loaded = NoLoad
    /\ api = [i \in RequestIds |-> Idle]

(***************************************************************************)
(* Operations                                                              *)
(***************************************************************************)
\* The records a compute call was given, as they are when it returns or
\* raises: the models bind the fields they read to locals (core_model.py
\* lines 13-31, interface_model.py lines 372-378) and the instances only
\* pass self.memspec and self.workload on; nothing assigns to a field of
\* either record.
Arguments_normalised(ms, wl) ==
    [memspec |-> ms,
     workload |-> [wl EXCEPT !.RDsch_percent =
                      IF RLess(@, Zero) THEN Zero
                      ELSE IF RLess(Hundred, @) THEN Hundred ELSE @]]

Arguments(ms, wl) == [memspec |-> ms, workload |-> wl]

Outcome(op, out) == [op |-> op, exc |-> out.exc, val |-> out.val]

\* model.compute(memspec, workload) called directly on a core model (the
\* backend calls the models only through the instances it builds).
CoreModelCompute ==
    /\ target # "Backend"
    /\ ret' = Outcome("DDR5CorePowerModel.compute",
                      DDR5CorePowerModel_compute(memspec, workload))
    /\ memspec' = Arguments(memspec, workload).memspec
    /\ workload' = Arguments(memspec, workload).workload
    /\ UNCHANGED <<target, dev, dimm, hist, loaded, api>>

\* model.compute(memspec, workload) called directly on an interface model.
InterfaceModelCompute ==
    /\ target # "Backend"
    /\ ret' = Outcome("DDR5InterfacePowerModel.compute",
                      DDR5InterfacePowerModel_compute(memspec, workload))
    /\ memspec' = Arguments(memspec, workload).memspec
    /\ workload' = Arguments(memspec, workload).workload
    /\ UNCHANGED <<target, dev, dimm, hist, loaded, api>>

DeviceCall(op, call) ==
    /\ target = "DDR5"
    /\ dev' = call.self
    /\ ret' = Outcome(op, call.out)
    /\ memspec' = Arguments(memspec, workload).memspec
    /\ workload' = Arguments(memspec, workload).workload
    /\ UNCHANGED <<target, dimm, hist, loaded, api>>

DeviceComputeCore == DeviceCall("DDR5.compute_core", DDR5_compute_core(dev, memspec, workload))

DeviceComputeInterface ==
    DeviceCall("DDR5.compute_interface", DDR5_compute_interface(dev, memspec, workload))

DeviceComputeAll == DeviceCall("DDR5.compute_all", DDR5_compute_all(dev, memspec, workload))

DimmCall(call) ==
    /\ Len(hist) < MaxCalls
    /\ dimm' = call.self
    /\ ret' = Outcome("DIMM.compute_all", call.out)
    /\ hist' = Append(hist, call.out)
    /\ memspec' = Arguments(memspec, workload).memspec
    /\ workload' = Arguments(memspec, workload).workload
    /\ UNCHANGED <<target, dev, loaded, api>>

DimmComputeAll ==
    /\ target = "DIMM"
    /\ DimmCall(DIMM_compute_all(dimm, memspec, workload))

LegacyDimmComputeAll ==
    /\ target = "LegacyDIMM"
    /\ DimmCall(LegacyDIMM_compute_all(dimm, memspec, workload))

\* The two loads of DDR5.from_json_files, in its order: load_memspec, then
\* (if that returned) load_workload.  The records they return become the
\* specification and the workload the models are run with.
LoadMemspec ==
    /\ target = "Parser"
    /\ loaded.op = "none"
    /\ \E doc \in MemspecDocs :
          /\ loaded' = [op |-> "load_memspec", doc |-> doc,
                        exc |-> load_memspec(doc).exc, arg |-> load_memspec(doc).arg]
          /\ memspec' = IF load_memspec(doc).exc = "none"
                        THEN load_memspec(doc).rec ELSE memspec
    /\ UNCHANGED <<workload, target, dev, dimm, ret, hist, api>>

LoadWorkload ==
    /\ target = "Parser"
    /\ loaded.op = "load_memspec" /\ loaded.exc = "none"
    /\ \E doc \in WorkloadDocs :
          /\ loaded' = [op |-> "load_workload", doc |-> doc,
                        exc |-> load_workload(doc).exc, arg |-> load_workload(doc).arg]
          /\ workload' = IF load_workload(doc).exc = "none"
                         THEN load_workload(doc).rec ELSE workload
    /\ UNCHANGED <<memspec, target, dev, dimm, ret, hist, api>>

\* ddr5_core_power_model(memspec, workload), which the regression runner
\* calls on the inputs it also gives to DDR5CorePowerModel.compute.
StandaloneCompute ==
    /\ target = "Regression"
    /\ ret' = Outcome("ddr5_core_power_model", ddr5_core_power_model(memspec, workload))
    /\ UNCHANGED <<memspec, workload, target, dev, dimm, hist, loaded, api>>

\* A request arrives at an endpoint and its handler converts the request and
\* constructs its models and instances.
ApiReceive(i) ==
    /\ target = "Backend"
    /\ api[i].pc = "idle"
    /\ \E endpoint \in Endpoints, request \in Requests :
          api' = [api EXCEPT ![i] = Handler_build(endpoint, request)]
    /\ UNCHANGED <<memspec, workload, target, dev, dimm, ret, hist, loaded>>

\* The handler calls compute on its instance.
ApiCompute(i) ==
    /\ target = "Backend"
    /\ api[i].pc = "built"
    /\ api' = [api EXCEPT ![i] = Handler_compute(Handler_locals(api, i))]
    /\ UNCHANGED <<memspec, workload, target, dev, dimm, ret, hist, loaded>>

\* The handler returns the result, or answers 500 with the exception's text.
ApiRespond(i) ==
    /\ target = "Backend"
    /\ api[i].pc = "computed"
    /\ api' = [api EXCEPT ![i] = Handler_respond(Handler_locals(api, i))]
    /\ UNCHANGED <<memspec, workload, target, dev, dimm, ret, hist, loaded>>

Next ==
    \/ CoreModelCompute
    \/ InterfaceModelCompute
    \/ DeviceComputeCore
    \/ DeviceComputeInterface
    \/ DeviceComputeAll
    \/ DimmComputeAll
    \/ LegacyDimmComputeAll
    \/ LoadMemspec
    \/ LoadWorkload
    \/ StandaloneCompute
    \/ \E i \in RequestIds : ApiReceive(i)
    \/ \E i \in RequestIds : ApiCompute(i)
    \/ \E i \in RequestIds : ApiRespond(i)

Spec == Init /\ [][Next]_vars

(***************************************************************************)
(* Properties                                                              *)
(***************************************************************************)
Returned(op) == ret.op = op /\ ret.exc = "none" /\ ret.val.some

\* C1: whenever DDR5CorePowerModel.compute succeeds (called directly or
\* through DDR5.compute_core), the returned breakdown satisfies
\* P_VDD_core + P_VPP_core = P_total_core.
C1_TotalsDecompose ==
    (Returned("DDR5CorePowerModel.compute") \/ Returned("DDR5.compute_core"))
        => RAdd(ret.val.d["P_VDD_core"], ret.val.d["P_VPP_core"])
             = ret.val.d["P_total_core"]

C1_Witness ==
    /\ Returned("DDR5CorePowerModel.compute")
    /\ RPos(ret.val.d["P_VDD_core"])
    /\ RPos(ret.val.d["P_VPP_core"])

\* C2: the mapping DDR5.compute_all returns has P_total_core equal to the
\* core breakdown's P_total_core, P_total_interface equal to the interface
\* breakdown's P_total_interface, and P_total equal to their sum.
C2_DeviceTotals ==
    Returned("DDR5.compute_all") =>
        /\ dev.core_model /\ dev.interface_model
        /\ ret.val.d["P_total_core"] = dev.corepower.d["P_total_core"]
        /\ ret.val.d["P_total_interface"] = dev.interfacepower.d["P_total_interface"]
        /\ ret.val.d["P_total"]
             = RAdd(dev.corepower.d["P_total_core"],
                    dev.interfacepower.d["P_total_interface"])

C2_Witness ==
    /\ Returned("DDR5.compute_all")
    /\ RPos(ret.val.d["P_total_core"])
    /\ RPos(ret.val.d["P_total_interface"])

(***************************************************************************)
(* DIMM aggregation.  hist[i] is the outcome of the i-th compute_all on    *)
(* the DIMM; SingleCore and ChannelInterface are what one device's core    *)
(* model and one channel-level interface computation give for the inputs.  *)
(***************************************************************************)
IsDimm == target \in {"DIMM", "LegacyDIMM"}
NumDevices == Len(dimm.dram_list.l)
SingleCore == DDR5CorePowerModel_compute(memspec, workload)
ChannelInterface ==
    IF target = "LegacyDIMM"
    THEN InterfacePowerModel_compute_all(dimm.interface_input)
    ELSE DDR5InterfacePowerModel_compute(memspec, workload)
Times(n, x) == RMul(R(n), x)
FirstCall == IsDimm /\ Len(hist) = 1 /\ dimm.dram_list.some /\ NumDevices >= 1
FirstCallReturned == FirstCall /\ hist[1].exc = "none" /\ hist[1].val.some

\* C3: the first compute_all of a DIMM of N >= 1 identical devices produces
\* an aggregate P_total_core equal to N times the P_total_core of one
\* device's compute_core.
C3_CoreTotalScales ==
    (FirstCall /\ SingleCore.exc = "none") =>
        /\ hist[1].exc = "none"
        /\ hist[1].val.some
        /\ "P_total_core" \in DOMAIN hist[1].val.d
        /\ hist[1].val.d["P_total_core"]
             = Times(NumDevices, SingleCore.val.d["P_total_core"])

\* C4: the P_total_interface in the result of the first compute_all of a
\* DIMM of N >= 1 devices is the total of one channel-level interface
\* computation, whatever N is.
C4_InterfaceOnce ==
    FirstCallReturned =>
        /\ "P_total_interface" \in DOMAIN hist[1].val.d
        /\ hist[1].val.d["P_total_interface"]
             = ChannelInterface.val.d["P_total_interface"]

\* C5: successive compute_all calls on one DIMM with unchanged inputs all
\* have the same outcome.
C5_RepeatedCallsAgree ==
    IsDimm => \A i \in 1..Len(hist) : hist[i] = hist[1]

\* C6: every compute_all on a DIMM whose device list is empty raises the
\* configuration error (ValueError) and returns nothing.
C6_EmptyListRejected ==
    (IsDimm /\ dimm.dram_list.some /\ NumDevices = 0) =>
        \A i \in 1..Len(hist) : hist[i].exc = "ValueError"

\* C7: after the first compute_all of a DIMM of N >= 1 identical devices,
\* the accumulated core breakdown has every key of a device's breakdown,
\* mapped to the sum over the devices, zero and negative sums included.
C7_KeyWiseSum ==
    (FirstCall /\ SingleCore.exc = "none") =>
        /\ dimm.corepower.some
        /\ \A k \in DOMAIN SingleCore.val.d :
              /\ k \in DOMAIN dimm.corepower.d
              /\ dimm.corepower.d[k] = Times(NumDevices, SingleCore.val.d[k])

\* C8: the P_total the first compute_all returns is the sum of the devices'
\* P_total_core plus one channel-level P_total_interface.
C8_TotalIsCorePlusChannel ==
    (FirstCallReturned /\ SingleCore.exc = "none") =>
        /\ "P_total" \in DOMAIN hist[1].val.d
        /\ hist[1].val.d["P_total"]
             = RAdd(Times(NumDevices, SingleCore.val.d["P_total_core"]),
                    ChannelInterface.val.d["P_total_interface"])

(***************************************************************************)
(* Activate / precharge duty                                               *)
(***************************************************************************)
Saturated ==
    /\ RPos(workload.tRRDsch_ns)
    /\ RLess(tRRDsch_s(workload), t_row_cycle(memspec.memtimingspec))

ActPreSwing == RMul(memspec.mempowerspec.vdd,
                    RSub(memspec.mempowerspec.idd0, memspec.mempowerspec.idd2n))

\* C9: the VDD activate/precharge duty never exceeds 1; when tRRDsch_ns > 0
\* and tRRDsch_ns * 1e-9 < (RAS + RP) * tCK it is exactly 1, the VDD
\* activate/precharge contribution is vdd * (idd0 - idd2n), and that is the
\* VDD part of the P_ACT_PRE_core a successful compute returns.
C9_DutySaturates ==
    LET p == memspec.mempowerspec
        t == memspec.memtimingspec
    IN  /\ RLeq(duty_act_pre(t, workload), One)
        /\ Saturated =>
             /\ duty_act_pre(t, workload) = One
             /\ P_ACT_PRE_vdd(p, t, workload) = ActPreSwing
             /\ Returned("DDR5CorePowerModel.compute") =>
                  ret.val.d["P_ACT_PRE_core"]
                    = RAdd(ActPreSwing, P_ACT_vpp(p, t, workload))

C9_Witness ==
    /\ Returned("DDR5CorePowerModel.compute")
    /\ Saturated
    /\ RPos(ActPreSwing)
    /\ RLess(ActPreSwing, ret.val.d["P_ACT_PRE_core"])

\* C10 (amended): when tRRDsch_ns is 0 and the refresh interval REFI * tCK
\* is not 0, DDR5CorePowerModel.compute does not fail: both
\* activate/precharge duties are 0, P_ACT_PRE_core is 0 and the breakdown
\* with all nine keys is returned.
C10_IdleActPre ==
    (/\ ret.op = "DDR5CorePowerModel.compute"
     /\ RIsZero(workload.tRRDsch_ns)
     /\ ~RIsZero(tREFI_s(memspec.memtimingspec))) =>
        /\ ret.exc = "none"
        /\ ret.val.some
        /\ DOMAIN ret.val.d = CoreKeys
        /\ duty_act_pre(memspec.memtimingspec, workload) = Zero
        /\ duty_act_vpp(memspec.memtimingspec, workload) = Zero
        /\ ret.val.d["P_ACT_PRE_core"] = Zero

C10_Witness ==
    /\ Returned("DDR5CorePowerModel.compute")
    /\ RIsZero(workload.tRRDsch_ns)
    /\ ret.val.d["P_ACT_PRE_core"] = Zero
    /\ RPos(ret.val.d["P_total_core"])

\* C10 as stated: when tRRDsch_ns is 0 the computation never fails with a
\* division by zero and returns the full breakdown with P_ACT_PRE_core = 0.
C10_AsStated ==
    (/\ ret.op = "DDR5CorePowerModel.compute"
     /\ RIsZero(workload.tRRDsch_ns)) =>
        /\ ret.exc = "none"
        /\ ret.val.some
        /\ DOMAIN ret.val.d = CoreKeys
        /\ ret.val.d["P_ACT_PRE_core"] = Zero

(***************************************************************************)
(* Degenerate timing                                                       *)
(***************************************************************************)
CoreOps == {"DDR5CorePowerModel.compute", "DDR5.compute_core"}

\* C11: with REFI = 0 the core power computation, called directly or
\* through DDR5.compute_core, raises and returns no breakdown; called
\* directly the error is the ZeroDivisionError of the refresh duty, and the
\* device caches no core breakdown.
C11_ZeroRefreshIntervalFails ==
    (ret.op \in CoreOps /\ memspec.memtimingspec.REFI = 0) =>
        /\ ret.exc # "none"
        /\ ~ret.val.some
        /\ ret.op = "DDR5CorePowerModel.compute" => ret.exc = "ZeroDivisionError"
        /\ ~dev.corepower.some

C11_Witness ==
    /\ ret.op = "DDR5.compute_core"
    /\ dev.core_model
    /\ memspec.memtimingspec.REFI = 0
    /\ RPos(memspec.memtimingspec.tCK)
    /\ ret.exc = "ZeroDivisionError"

\* C12: whenever tCK is zero or negative the core power computation raises
\* instead of returning a breakdown.
C12_NonPositiveClockRejected ==
    (ret.op = "DDR5CorePowerModel.compute" /\ ~RPos(memspec.memtimingspec.tCK)) =>
        ret.exc # "none" /\ ~ret.val.some

(***************************************************************************)
(* Workload percentages                                                    *)
(***************************************************************************)
AllZero(wl) ==
    /\ RIsZero(wl.BNK_PRE_percent)
    /\ RIsZero(wl.CKE_LO_PRE_percent)
    /\ RIsZero(wl.CKE_LO_ACT_percent)
    /\ RIsZero(wl.RDsch_percent)
    /\ RIsZero(wl.WRsch_percent)

\* C13: a breakdown computed for a workload whose percentages are all 0 has
\* P_RD_core = 0 and P_WR_core = 0, P_PRE_STBY_core = vdd * idd2n,
\* P_ACT_STBY_core = vdd * idd3n, and the P_REF_core that every other
\* workload gets with the same specification.
C13_ZeroActivityFloor ==
    (Returned("DDR5CorePowerModel.compute") /\ AllZero(workload)) =>
        /\ ret.val.d["P_RD_core"] = Zero
        /\ ret.val.d["P_WR_core"] = Zero
        /\ ret.val.d["P_PRE_STBY_core"]
             = RMul(memspec.mempowerspec.vdd, memspec.mempowerspec.idd2n)
        /\ ret.val.d["P_ACT_STBY_core"]
             = RMul(memspec.mempowerspec.vdd, memspec.mempowerspec.idd3n)
        /\ \A w \in Workloads :
              /\ DDR5CorePowerModel_compute(memspec, w).exc = "none"
              /\ DDR5CorePowerModel_compute(memspec, w).val.d["P_REF_core"]
                   = ret.val.d["P_REF_core"]

C13_Witness ==
    /\ Returned("DDR5CorePowerModel.compute")
    /\ AllZero(workload)
    /\ RPos(ret.val.d["P_PRE_STBY_core"])
    /\ RPos(ret.val.d["P_ACT_STBY_core"])
    /\ RPos(ret.val.d["P_REF_core"])

\* w differs from the workload of the state in RDsch_percent at most.
SameButRD(w) == w = [workload EXCEPT !.RDsch_percent = w.RDsch_percent]

ReadSwingNonNegative ==
    /\ RLeq(memspec.mempowerspec.idd3n, memspec.mempowerspec.idd4r)
    /\ RLeq(Zero, memspec.mempowerspec.vdd)

\* C14: with idd4r >= idd3n and vdd >= 0, a workload that differs from the
\* computed one only in a larger (or equal) RDsch_percent gets a P_RD_core
\* that is not smaller.
C14_ReadPowerMonotone ==
    (Returned("DDR5CorePowerModel.compute") /\ ReadSwingNonNegative) =>
        \A w \in Workloads :
            (SameButRD(w) /\ RLeq(workload.RDsch_percent, w.RDsch_percent)) =>
                /\ DDR5CorePowerModel_compute(memspec, w).exc = "none"
                /\ RLeq(ret.val.d["P_RD_core"],
                        DDR5CorePowerModel_compute(memspec, w).val.d["P_RD_core"])

C14_Witness ==
    /\ Returned("DDR5CorePowerModel.compute")
    /\ ReadSwingNonNegative
    /\ \E w \in Workloads :
          /\ SameButRD(w)
          /\ RLess(workload.RDsch_percent, w.RDsch_percent)
          /\ RLess(ret.val.d["P_RD_core"],
                   DDR5CorePowerModel_compute(memspec, w).val.d["P_RD_core"])

\* The background term of a returned breakdown: what P_VDD_core holds beyond
\* the read, write, refresh and activate/precharge terms (lines 82-83).
BackgroundOf(d) ==
    RSub(d["P_VDD_core"],
         RAdd(RAdd(RAdd(d["P_RD_core"], d["P_WR_core"]),
                   P_REF_vdd(memspec.mempowerspec, memspec.memtimingspec)),
              P_ACT_PRE_vdd(memspec.mempowerspec, memspec.memtimingspec, workload)))

NoPowerDown ==
    /\ RIsZero(workload.CKE_LO_PRE_percent)
    /\ RIsZero(workload.CKE_LO_ACT_percent)
    /\ RLeq(Zero, workload.BNK_PRE_percent)
    /\ RLeq(workload.BNK_PRE_percent, Hundred)
    /\ RLeq(Zero, memspec.mempowerspec.vdd)
    /\ RLeq(memspec.mempowerspec.idd2n, memspec.mempowerspec.idd3n)

\* C15: with both power-down percentages 0, BNK_PRE_percent in [0, 100],
\* vdd >= 0 and idd2n <= idd3n, the background term inside the returned
\* P_VDD_core is P_background_vdd and lies in [idd2n * vdd, idd3n * vdd].
C15_BackgroundBounded ==
    (Returned("DDR5CorePowerModel.compute") /\ NoPowerDown) =>
        /\ BackgroundOf(ret.val.d) = P_background_vdd(memspec.mempowerspec, workload)
        /\ RLeq(RMul(memspec.mempowerspec.idd2n, memspec.mempowerspec.vdd),
                BackgroundOf(ret.val.d))
        /\ RLeq(BackgroundOf(ret.val.d),
                RMul(memspec.mempowerspec.idd3n, memspec.mempowerspec.vdd))

C15_Witness ==
    /\ Returned("DDR5CorePowerModel.compute")
    /\ NoPowerDown
    /\ RLess(RMul(memspec.mempowerspec.idd2n, memspec.mempowerspec.vdd),
             BackgroundOf(ret.val.d))
    /\ RLess(BackgroundOf(ret.val.d),
             RMul(memspec.mempowerspec.idd3n, memspec.mempowerspec.vdd))

(***************************************************************************)
(* Well-formed inputs                                                      *)
(***************************************************************************)
InPercentRange(x) == RLeq(Zero, x) /\ RLeq(x, Hundred)

ValidSpecification ==
    LET p == memspec.mempowerspec
        t == memspec.memtimingspec
    IN  /\ RPos(p.vdd) /\ RPos(p.vpp)
        /\ RPos(p.idd2n) /\ RPos(p.idd3n) /\ RPos(p.idd2p) /\ RPos(p.idd3p)
        /\ RLeq(p.idd2n, p.idd0) /\ RLeq(p.idd3n, p.idd4r)
        /\ RLeq(p.idd3n, p.idd4w) /\ RLeq(p.idd3n, p.idd5b)
        /\ RLeq(p.ipp2n, p.ipp0) /\ RLeq(p.ipp3n, p.ipp5b)
        /\ RPos(t.tCK) /\ t.REFI > 0

ValidWorkload ==
    /\ InPercentRange(workload.BNK_PRE_percent)
    /\ InPercentRange(workload.CKE_LO_PRE_percent)
    /\ InPercentRange(workload.CKE_LO_ACT_percent)
    /\ InPercentRange(workload.RDsch_percent)
    /\ InPercentRange(workload.WRsch_percent)
    /\ RLeq(Zero, workload.tRRDsch_ns)

ReadSwing == RMul(memspec.mempowerspec.vdd,
                  RSub(memspec.mempowerspec.idd4r, memspec.mempowerspec.idd3n))

WriteSwing == RMul(memspec.mempowerspec.vdd,
                   RSub(memspec.mempowerspec.idd4w, memspec.mempowerspec.idd3n))

\* C17: in every returned breakdown P_RD_core is
\* vdd * (idd4r - idd3n) * RDsch_percent / 100 and P_WR_core is
\* vdd * (idd4w - idd3n) * WRsch_percent / 100, for percentages below 0 and
\* above 100 as well.
C17_PercentagesNotClamped ==
    Returned("DDR5CorePowerModel.compute") =>
        /\ ret.val.d["P_RD_core"]
             = RDiv(RMul(ReadSwing, workload.RDsch_percent), Hundred)
        /\ ret.val.d["P_WR_core"]
             = RDiv(RMul(WriteSwing, workload.WRsch_percent), Hundred)

C17_Witness ==
    /\ Returned("DDR5CorePowerModel.compute")
    /\ RLess(Hundred, workload.RDsch_percent)
    /\ RPos(ReadSwing)
    /\ RLess(ReadSwing, ret.val.d["P_RD_core"])

(***************************************************************************)
(* The device composer                                                     *)
(***************************************************************************)
\* C18: a compute_core step of a device without a core model, and a
\* compute_interface step of a device without an interface model, raises
\* ValueError, returns nothing, and leaves the instance (its three cached
\* breakdowns included) as it was.
C18_MissingModelRaises ==
    [][/\ (DeviceComputeCore /\ ~dev.core_model) =>
             (ret'.exc = "ValueError" /\ ~ret'.val.some /\ dev' = dev)
       /\ (DeviceComputeInterface /\ ~dev.interface_model) =>
             (ret'.exc = "ValueError" /\ ~ret'.val.some /\ dev' = dev)]_vars

C18_Witness ==
    /\ ret.op = "DDR5.compute_core"
    /\ ret.exc = "ValueError"
    /\ ~dev.core_model
    /\ dev.interfacepower.some
    /\ ~dev.corepower.some

\* C19: a compute_all step of a device either returns the merged breakdown
\* (and caches it), or raises, returns nothing and leaves corepower,
\* interfacepower and totalpower as they were before the call.
C19_AllOrNothing ==
    [][DeviceComputeAll =>
         \/ /\ ret'.exc = "none"
            /\ ret'.val.some
            /\ dev'.totalpower = ret'.val
         \/ /\ ret'.exc # "none"
            /\ ~ret'.val.some
            /\ dev'.corepower = dev.corepower
            /\ dev'.interfacepower = dev.interfacepower
            /\ dev'.totalpower = dev.totalpower]_vars

TotalKeys == {"P_total_core", "P_total_interface", "P_total"}

\* C20: the mapping DDR5.compute_all returns has exactly the keys
\* "core." + k for the keys k of the core breakdown, "if." + k for the keys
\* k of the interface breakdown, and the three totals; every namespaced key
\* maps to the value of k in its breakdown.
C20_MergedKeys ==
    Returned("DDR5.compute_all") =>
        /\ DOMAIN dev.corepower.d = CoreKeys
        /\ DOMAIN dev.interfacepower.d = InterfaceKeys
        /\ DOMAIN ret.val.d =
             {"core." \o k : k \in CoreKeys} \cup {"if." \o k : k \in InterfaceKeys}
                \cup TotalKeys
        /\ \A k \in CoreKeys : ret.val.d["core." \o k] = dev.corepower.d[k]
        /\ \A k \in InterfaceKeys : ret.val.d["if." \o k] = dev.interfacepower.d[k]

C20_Witness ==
    /\ Returned("DDR5.compute_all")
    /\ Cardinality(DOMAIN ret.val.d)
         = Cardinality(CoreKeys) + Cardinality(InterfaceKeys) + Cardinality(TotalKeys)
    /\ {"core.P_total_core", "if.P_total_interface", "if.P_DQ_READ"} \subseteq DOMAIN ret.val.d
    /\ RPos(ret.val.d["core.P_RD_core"])
    /\ RPos(ret.val.d["if.P_DQ_READ"])

(***************************************************************************)
(* The interface model                                                     *)
(***************************************************************************)
InterfaceOps == {"DDR5InterfacePowerModel.compute", "DDR5.compute_interface"}

ClassKeys == InterfaceKeys \ {"P_total_interface"}

\* The seven per-class powers of a breakdown, added in the order of the code.
SumOfClasses(d) ==
    RAdd(RAdd(RAdd(RAdd(RAdd(RAdd(d["P_DQ_WRITE"], d["P_DQ_READ"]), d["P_CA"]),
                        d["P_CK"]), d["P_WCK"]), d["P_DQS"]), d["P_CS"])

C22_DynamicNotIncluded ==
    /\ Returned("DDR5InterfacePowerModel.compute") =>
          /\ ret.val.d = calculate_termination_power(compute_inputs(memspec, workload))
          /\ DOMAIN ret.val.d \cap DynamicKeys = {}
          /\ ret.val.d["P_total_interface"] = SumOfClasses(ret.val.d)
          /\ RPos(compute_dynamic(compute_inputs(memspec, workload))["P_Total_Dynamic"])
    /\ (target = "LegacyDIMM" /\ dimm.interfacepower.some) =>
          dimm.interfacepower.d = compute_termination(dimm.interface_input)

C22_Witness ==
    /\ Returned("DDR5InterfacePowerModel.compute")
    /\ RPos(ret.val.d["P_total_interface"])
    /\ RPos(compute_dynamic(compute_inputs(memspec, workload))["P_DQ_dyn"])
    /\ RPos(compute_dynamic(compute_inputs(memspec, workload))["P_DQS_dyn"])

\* m is the specification of the state with another device width.
SameButWidth(m) ==
    /\ m = [memspec EXCEPT !.memarchitecturespec.width = m.memarchitecturespec.width]
    /\ m.memarchitecturespec.width # memspec.memarchitecturespec.width

\* C23: the data and strobe powers of the interface breakdown scale with
\* the device width of the specification: for a specification that differs
\* in the width only, P_DQ_READ, P_DQ_WRITE and P_DQS are in the ratio of
\* the widths.
C23_DataPinsFollowWidth ==
    (Returned("DDR5InterfacePowerModel.compute")
       /\ RPos(workload.RDsch_percent) /\ RPos(workload.WRsch_percent)) =>
        \A m \in MemSpecs : SameButWidth(m) =>
            \A k \in {"P_DQ_READ", "P_DQ_WRITE", "P_DQS"} :
                Times(memspec.memarchitecturespec.width,
                      DDR5InterfacePowerModel_compute(m, workload).val.d[k])
                  = Times(m.memarchitecturespec.width, ret.val.d[k])

(***************************************************************************)
(* The loaders                                                             *)
(***************************************************************************)
\* The document of the last load has the three sections of a specification.
HasSections ==
    /\ loaded.op = "load_memspec"
    /\ "memspec" \in DOMAIN loaded.doc
    /\ Sections \subseteq DOMAIN loaded.doc["memspec"]

\* The fields that load_memspec reads and the document lacks.
MissingSpecFields ==
    (Range(ArchKeys) \ DOMAIN loaded.doc["memspec"]["memarchitecturespec"])
    \cup (Range(PowerKeys) \ DOMAIN loaded.doc["memspec"]["mempowerspec"])
    \cup (Range(TimingKeys) \ DOMAIN loaded.doc["memspec"]["memtimingspec"])

MissingWorkloadFields == Range(WorkloadKeys) \ DOMAIN loaded.doc

\* No record came out of the loads: the specification and the workload are
\* the ones the caller had before.
NoSpecLoaded == memspec = MemSpec(8, NominalPower, NominalTiming)
NoWorkloadLoaded == workload = Workload(<<50, 0, 0>>, 50, 50, 4)

\* C24: load_memspec on a document that lacks a field of one of its three
\* sections, and load_workload on a document that lacks one of the twelve
\* workload fields, raises KeyError naming the absent key and yields no
\* record.
C24_MissingFieldNamed ==
    /\ (HasSections /\ MissingSpecFields # {}) =>
          /\ loaded.exc = "KeyError"
          /\ loaded.arg \in MissingSpecFields
          /\ NoSpecLoaded
    /\ (loaded.op = "load_workload" /\ MissingWorkloadFields # {}) =>
          /\ loaded.exc = "KeyError"
          /\ loaded.arg \in MissingWorkloadFields
          /\ NoWorkloadLoaded

C24_Witness ==
    /\ HasSections
    /\ MissingSpecFields = {"vdd"}
    /\ loaded.exc = "KeyError"
    /\ loaded.arg = "vdd"

\* C25: load_memspec on a document whose memspec lacks memoryId or
\* memoryType raises KeyError naming that key.
C25_IdentityFieldsRequired ==
    (HasSections /\ {"memoryId", "memoryType"} \ DOMAIN loaded.doc["memspec"] # {}) =>
        /\ loaded.exc = "KeyError"
        /\ loaded.arg \in {"memoryId", "memoryType"} \ DOMAIN loaded.doc["memspec"]

\* The fields of section s that are present as a string that is no number.
TextFields(s) ==
    {k \in DOMAIN loaded.doc["memspec"][s] : loaded.doc["memspec"][s][k] = Text}

AllFieldsPresent == HasSections /\ MissingSpecFields = {}

SomeTextField == \E s \in Sections : TextFields(s) # {}

WellFormedSpecification(ms) ==
    LET p == ms.mempowerspec
        t == ms.memtimingspec
    IN  /\ RPos(p.vdd) /\ RPos(p.vpp)
        /\ RPos(p.idd2n) /\ RPos(p.idd3n) /\ RPos(p.idd2p) /\ RPos(p.idd3p)
        /\ RLeq(p.idd2n, p.idd0) /\ RLeq(p.idd3n, p.idd4r)
        /\ RLeq(p.idd3n, p.idd4w) /\ RLeq(p.idd3n, p.idd5b)
        /\ RLeq(p.ipp2n, p.ipp0) /\ RLeq(p.ipp3n, p.ipp5b)
        /\ RPos(t.tCK) /\ t.REFI > 0

WellFormedWorkload(wl) ==
    /\ InPercentRange(wl.BNK_PRE_percent)
    /\ InPercentRange(wl.CKE_LO_PRE_percent)
    /\ InPercentRange(wl.CKE_LO_ACT_percent)
    /\ InPercentRange(wl.RDsch_percent)
    /\ InPercentRange(wl.WRsch_percent)
    /\ RLeq(Zero, wl.tRRDsch_ns)

Answered(i, endpoint) == api[i].pc = "done" /\ api[i].endpoint = endpoint

ValidRequest(request) ==
    /\ WellFormedSpecification(request.memspec)
    /\ WellFormedWorkload(request.workload)

\* compute_core of a device built with a core model directly on the
\* specification and the workload the request was made from.
DirectCore(request) ==
    DDR5_compute_core(DDR5(TRUE, FALSE),
                      MemSpec(request.memspec.memarchitecturespec.width,
                              request.memspec.mempowerspec,
                              request.memspec.memtimingspec),
                      request.workload).out

\* C27: the answer of /api/calculate/core to a request made from a valid
\* specification and workload is 200 with the breakdown that compute_core
\* of a device with a core model returns on that specification and
\* workload: the same keys and an equal P_total_core.
C27_CoreEndpointMatchesDevice ==
    \A i \in RequestIds :
        (Answered(i, "core") /\ ValidRequest(api[i].request)) =>
            /\ DirectCore(api[i].request).exc = "none"
            /\ api[i].response.status_code = 200
            /\ DOMAIN api[i].response.body = DOMAIN DirectCore(api[i].request).val.d
            /\ api[i].response.body["P_total_core"] =
                  DirectCore(api[i].request).val.d["P_total_core"]

C27_Witness ==
    /\ Answered(1, "core")
    /\ ValidRequest(api[1].request)
    /\ api[1].request.workload.tRRDsch_ns = R(28)
    /\ api[1].response.status_code = 200
    /\ DOMAIN api[1].response.body = CoreKeys
    /\ RPos(api[1].response.body["P_total_core"])

\* The handler of request i as it stands when the request is served alone
\* up to the same step.
Alone(i) ==
    IF api[i].pc = "done"
    THEN calculate(api[i].endpoint, api[i].request)
    ELSE Handler_compute(Handler_build(api[i].endpoint, api[i].request))

Uncached(self) ==
    [self EXCEPT !.corepower = None, !.interfacepower = None, !.totalpower = None]

UncachedDevices(dram_list) ==
    IF dram_list.some
    THEN List([j \in 1..Len(dram_list.l) |-> Uncached(dram_list.l[j])])
    ELSE dram_list

UncachedDimm(self) == [Uncached(self) EXCEPT !.dram_list = UncachedDevices(@)]

ModelOps == {"DDR5CorePowerModel.compute", "DDR5InterfacePowerModel.compute"}

\* C28: a step that is a compute call (on a model, a device or a DIMM)
\* leaves every field of the shared specification and workload as it was;
\* a model's compute changes no instance at all, a device's compute_* only
\* that device's cached breakdowns, and a DIMM's compute_all only the cached
\* breakdowns of the DIMM and of the devices it calls.
C28_ComputeLeavesInputs ==
    [][(loaded' = loaded /\ api' = api) =>
          /\ memspec' = memspec
          /\ workload' = workload
          /\ Uncached(dev') = Uncached(dev)
          /\ UncachedDimm(dimm') = UncachedDimm(dimm)
          /\ target = "DDR5" => dimm' = dimm
          /\ target # "DDR5" => dev' = dev
          /\ (ret' # ret /\ ret'.op \in ModelOps) => (dev' = dev /\ dimm' = dimm)]_vars

C28_Witness ==
    /\ target = "DIMM"
    /\ Len(hist) >= 2
    /\ workload \in OutOfRangeWorkloads
    /\ memspec \in RangeSpecs
    /\ dimm.dram_list.some /\ Len(dimm.dram_list.l) >= 2
    /\ dimm.totalpower.some
    /\ dimm.dram_list.l[2].totalpower.some
    /\ ret.op = "DIMM.compute_all"

\* C30: on a workload with tRRDsch_ns > 0 the standalone
\* ddr5_core_power_model ends as DDR5CorePowerModel.compute does on the same
\* specification and workload: with the same nine keys and equal values, or
\* (when tCK * REFI is 0) with the same exception.
C30_StandaloneMatchesModel ==
    (ret.op = "ddr5_core_power_model" /\ RPos(workload.tRRDsch_ns)) =>
        /\ ret.exc = DDR5CorePowerModel_compute(memspec, workload).exc
        /\ ret.val = DDR5CorePowerModel_compute(memspec, workload).val
        /\ ret.exc = "none" => DOMAIN ret.val.d = CoreKeys

C30_Witness ==
    /\ Returned("ddr5_core_power_model")
    /\ workload.tRRDsch_ns = R(28)
    /\ memspec.mempowerspec = NominalPower
    /\ DOMAIN ret.val.d = CoreKeys
    /\ RPos(ret.val.d["P_ACT_PRE_core"])
    /\ ret.val.d["P_total_core"] = P_total_core(memspec.mempowerspec, memspec.memtimingspec, workload)

====
